---------------------------- MODULE Spec2Model ----------------------------
(***************************************************************************)
(* Model of the crawl-and-aggregate engine of the sales scraper:           *)
(*   scraper.py  fetch_and_parse, extract_*, scrape_page_data (memoized by *)
(*               caching.scrape_memory) and crawl_website;                 *)
(*   llm_processor.py  get_structured_responses (memoized by               *)
(*               caching.llm_memory); app.py  the Clear Cache button and   *)
(*               the batch analysis of the roster.                         *)
(* A URL is a string, so the scheme test of crawl_website and the netloc   *)
(* test of extract_internal_links are computed on the characters.  Python  *)
(* None is the value None below; the page texts of the model never equal   *)
(* it.                                                                     *)
(***************************************************************************)
EXTENDS Integers, Sequences, FiniteSets, TLC

VARIABLES
    pc,                \* position in crawl_website: idle, while, for, done
    start_url,         \* arguments of the running crawl_website call
    max_depth,
    max_pages,
    queue,             \* collections.deque of <<url, depth>>
    visited_urls,      \* set of URLs
    all_scraped_data,  \* list of PageResult
    current_depth,     \* depth of the entry popped by the running iteration
    new_links,         \* links of the running for loop not yet iterated
    scrape_cache,      \* scrape_memory: the memoized results, one per URL
    scrapes,           \* history: every scrape_page_data call of the crawl
    skipped,           \* history: URLs of the "Skipping ..." warnings
    enqueued,          \* history: URLs in the order they entered the queue
    returned           \* return value of crawl_website, once pc is done

VARIABLES
    scrape_calls,      \* history: scrape_page_data calls made outside a crawl
    cache_epoch        \* number of "Clear Cache" clicks so far

VARIABLES
    llm_pc,            \* position in get_structured_responses:
                       \*   idle, loop, done, raised
    text_content,      \* arguments of the running get_structured_responses
    questions_config,
    client_config,
    model,
    env_api_key,       \* os.environ OPENAI_API_KEY, None when unset
    text_content_for_llm,
    q_index,           \* number of questions the for loop has finished
    responses,         \* dict: question text -> answer
    model_calls,       \* history: every client.chat.completions.create call
    llm_cache,         \* llm_memory: the memoized mappings, one per input
    llm_returned,      \* return value, once llm_pc is done
    llm_log            \* history: the get_structured_responses calls that ended

VARIABLES
    crawl_round,       \* history: 1 for a first crawl, 2 for its repetition
    first_returned,    \* history: what the first crawl returned
    batch_pc,          \* position in the batch loop of app.py:
                       \*   idle, refused, site, crawl, llm, done
    websites,          \* the roster, get_website_list(data_df)
    site_index,        \* number of roster sites the loop has finished
    all_results,       \* list of row dicts
    openai_api_key_env \* os.getenv("OPENAI_API_KEY") as read by main()

crawl_vars == <<pc, start_url, max_depth, max_pages, queue, visited_urls,
                all_scraped_data, current_depth, new_links,
                scrapes, skipped, enqueued, returned>>

scraper_vars == <<scrape_calls, cache_epoch>>

llm_vars == <<llm_pc, text_content, questions_config, client_config, model,
              env_api_key, text_content_for_llm, q_index, responses,
              model_calls, llm_returned, llm_log>>

app_vars == <<crawl_round, first_returned, batch_pc, websites, site_index,
              all_results, openai_api_key_env>>

vars == <<crawl_vars, scrape_cache, scraper_vars, llm_vars, llm_cache,
          app_vars>>

-----------------------------------------------------------------------------
(* Bounds of the model and the URLs it crawls *)

MaxDepthBound == 2
MaxPagesBound == 4
MaxLinksPerPage == 2
MaxScrapeCalls == 2
MaxCacheClears == 1
MaxQuestions == 2
MaxLlmCalls == 2

None == "None"

SeedUrl == "https://ex.com"
SiteUrls == {SeedUrl, "https://ex.com/a", "https://ex.com/b", "https://ex.com/c"}
ExternalUrl == "https://other.org/x"
MailtoUrl == "mailto:info@ex.com"
RedirectUrl == "https://ex.com/home"
InvalidSeed == "ftp://ex.com"
StartUrls == {SeedUrl, InvalidSeed}

-----------------------------------------------------------------------------
(* String helpers: str.startswith and urlparse(...).netloc *)

StartsWith(s, prefix) ==
    Len(s) >= Len(prefix) /\ SubSeq(s, 1, Len(prefix)) = prefix

StartsWithAny(s, prefixes) == \E p \in prefixes : StartsWith(s, p)

RECURSIVE UpToSlash(_, _)
UpToSlash(s, i) ==
    IF i > Len(s) \/ SubSeq(s, i, i) = "/" THEN ""
    ELSE SubSeq(s, i, i) \o UpToSlash(s, i + 1)

RECURSIVE FindAuthority(_, _)
FindAuthority(s, i) ==
    IF i + 1 > Len(s) THEN 0
    ELSE IF SubSeq(s, i, i + 1) = "//" /\ i > 1 /\ SubSeq(s, i - 1, i - 1) = ":"
         THEN i + 2
         ELSE FindAuthority(s, i + 1)

ParseNetloc(url) ==
    LET i == FindAuthority(url, 1) IN IF i = 0 THEN "" ELSE UpToSlash(url, i)

\* the netloc of every URL of the model, parsed once
KnownUrls == SiteUrls \cup {ExternalUrl, MailtoUrl, RedirectUrl, InvalidSeed}

NetlocTable == [url \in KnownUrls |-> ParseNetloc(url)]

Netloc(url) == NetlocTable[url]

-----------------------------------------------------------------------------
(* The web: what one fetch of a URL can yield.  A soup is the parsed       *)
(* document, held as its cleaned text and the absolute targets of its      *)
(* anchors (after urljoin); NoSoup is the None that fetch_and_parse        *)
(* returns in place of a soup when the request or the parse fails.         *)

NoSoup == [parsed |-> FALSE]

LinkSets == {L \in SUBSET SiteUrls : Cardinality(L) <= MaxLinksPerPage}

Soups ==
    [parsed : {TRUE}, text : {"About us"}, hrefs : LinkSets]
    \cup {[parsed |-> TRUE, text |-> "", hrefs |-> {}]}

RedirectedSoups ==
    {[parsed |-> TRUE, text |-> "About us",
      hrefs |-> {ExternalUrl, MailtoUrl, "https://ex.com/b"}]}

FetchOutcomes(url) ==
    {[soup |-> NoSoup, effective_url |-> url]}
    \cup {[soup |-> s, effective_url |-> url] : s \in Soups}
    \cup {[soup |-> s, effective_url |-> RedirectUrl] : s \in RedirectedSoups}

extract_text_from_soup(soup) == IF soup = NoSoup THEN "" ELSE soup.text

extract_internal_links(soup, base_url) ==
    IF soup = NoSoup THEN {}
    ELSE {l \in soup.hrefs :
            /\ Netloc(l) = Netloc(base_url)
            /\ StartsWithAny(l, {"http://", "https://"})}

ErrorMessage(url) == "Failed to fetch or parse " \o url \o "."

\* variant: the failure record carries the text of extract_text_from_soup(None)
scrape_page_data_uncached_empty_text(url, fetched) ==
    IF fetched.soup = NoSoup
    THEN [url |-> url, text |-> extract_text_from_soup(fetched.soup),
          links |-> {}, error |-> ErrorMessage(url)]
    ELSE [url   |-> fetched.effective_url,
          text  |-> extract_text_from_soup(fetched.soup),
          links |-> extract_internal_links(fetched.soup, fetched.effective_url),
          error |-> None]

\* scrape_page_data without the cache: the PageResult built from one fetch
scrape_page_data_uncached(url, fetched) ==
    IF fetched.soup = NoSoup
    THEN [url |-> url, text |-> None, links |-> {}, error |-> ErrorMessage(url)]
    ELSE [url   |-> fetched.effective_url,
          text  |-> extract_text_from_soup(fetched.soup),
          links |-> extract_internal_links(fetched.soup, fetched.effective_url),
          error |-> None]

\* variant: no memoization, every call fetches
scrape_page_data_refetch(cache, url, fetched) ==
    scrape_page_data_uncached(url, fetched)

\* @scrape_memory.cache: a URL already in the cache is not fetched again
scrape_page_data(cache, url, fetched) ==
    IF url \in DOMAIN cache THEN cache[url]
    ELSE scrape_page_data_uncached(url, fetched)

CacheAfter(cache, url, page_data) ==
    IF url \in DOMAIN cache THEN cache
    ELSE [u \in DOMAIN cache \cup {url} |->
            IF u = url THEN page_data ELSE cache[u]]

-----------------------------------------------------------------------------
(* crawl_website, line by line *)

\* truth value of a str-or-None field: None and "" are false
Falsy(v) == v = None \/ v = ""

\* variant: any scheme passes
has_valid_scheme_any(url) == \E i \in 1..Len(url) : StartsWith(SubSeq(url, i, Len(url)), "://")

has_valid_scheme(url) == StartsWithAny(url, {"http://", "https://"})

initial_queue(url) == <<<<url, 0>>>>

initial_visited(url) == {url}

while_condition(q, data, mp) == q # <<>> /\ Len(data) < mp

popleft_rest(q) == Tail(q)

is_success(page_data) == Falsy(page_data.error)

\* variant: the result is appended twice
append_result_twice(data, page_data) == Append(Append(data, page_data), page_data)

append_result(data, page_data) == Append(data, page_data)

\* variant: <= in place of <
may_follow_links_inclusive(depth, md) == depth <= md

may_follow_links(depth, md) == depth < md

\* variants: one of the two tests of line 133 left out
may_enqueue_uncapped(link, visited, mp) == link \notin visited

may_enqueue_unvisited_unchecked(link, visited, mp) == Cardinality(visited) < mp

\* variant: the cap compared one too early
may_enqueue_one_short(link, visited, mp) ==
    link \notin visited /\ Cardinality(visited) + 1 < mp

may_enqueue(link, visited, mp) ==
    link \notin visited /\ Cardinality(visited) < mp

\* variant: appendleft in place of append
enqueue_front(q, link, depth) == <<<<link, depth + 1>>>> \o q

enqueue(q, link, depth) == Append(q, <<link, depth + 1>>)

\* the elif branch of a failed page: the queue and the results stay as they are
\* variants: a failed page empties the queue, or is queued again for a retry
queue_after_failure_abort(rest, url, depth) == <<>>

queue_after_failure_retry(rest, url, depth) == Append(rest, <<url, depth>>)

queue_after_failure(rest, url, depth) == rest

\* variant: the failed PageResult is appended too
data_after_failure_appended(data, page_data) == Append(data, page_data)

data_after_failure(data, page_data) == data

Init ==
    /\ pc = "idle"
    /\ start_url = None
    /\ max_depth = 0
    /\ max_pages = 0
    /\ queue = <<>>
    /\ visited_urls = {}
    /\ all_scraped_data = <<>>
    /\ current_depth = 0
    /\ new_links = {}
    /\ scrape_cache = <<>>
    /\ scrapes = <<>>
    /\ skipped = <<>>
    /\ enqueued = <<>>
    /\ returned = <<>>
    /\ scrape_calls = <<>>
    /\ cache_epoch = 0
    /\ llm_pc = "idle"
    /\ text_content = None
    /\ questions_config = <<>>
    /\ client_config = <<>>
    /\ model = None
    /\ env_api_key = None
    /\ text_content_for_llm = None
    /\ q_index = 0
    /\ responses = <<>>
    /\ model_calls = <<>>
    /\ llm_cache = <<>>
    /\ llm_returned = None
    /\ llm_log = <<>>
    /\ crawl_round = 1
    /\ first_returned = <<>>
    /\ batch_pc = "idle"
    /\ websites = <<>>
    /\ site_index = 0
    /\ all_results = <<>>
    /\ openai_api_key_env = None

\* lines 111-117: the scheme check and the initial queue, visited set and
\* list of a new call of crawl_website, whose locals start afresh
CrawlBegin(url, md, mp) ==
    /\ start_url' = url
    /\ max_depth' = md
    /\ max_pages' = mp
    /\ IF ~has_valid_scheme(url)
       THEN /\ pc' = "done"
            /\ queue' = <<>>
            /\ visited_urls' = {}
            /\ enqueued' = <<>>
       ELSE /\ pc' = "while"
            /\ queue' = initial_queue(url)
            /\ visited_urls' = initial_visited(url)
            /\ enqueued' = <<url>>
    /\ returned' = <<>>
    /\ all_scraped_data' = <<>>
    /\ current_depth' = 0
    /\ new_links' = {}
    /\ scrapes' = <<>>
    /\ skipped' = <<>>
    /\ UNCHANGED scrape_cache

\* crawl_website(url, md, mp) called once
CrawlStart(url, md, mp) ==
    /\ pc = "idle"
    /\ CrawlBegin(url, md, mp)
    /\ UNCHANGED <<scraper_vars, llm_vars, llm_cache, app_vars>>

\* lines 119-131 and 136-138: one iteration up to the for loop
WhileBody ==
    /\ pc = "while"
    /\ UNCHANGED <<scraper_vars, llm_vars, llm_cache, app_vars>>
    /\ while_condition(queue, all_scraped_data, max_pages)
    /\ LET current_url == Head(queue)[1]
           depth == Head(queue)[2]
           rest == popleft_rest(queue)
       IN \E fetched \in FetchOutcomes(current_url) :
            LET page_data == scrape_page_data(scrape_cache, current_url, fetched)
            IN /\ scrape_cache' = CacheAfter(scrape_cache, current_url, page_data)
               /\ scrapes' = Append(scrapes, [url |-> current_url, depth |-> depth,
                                              page_data |-> page_data])
               /\ current_depth' = depth
               /\ IF is_success(page_data)
                  THEN /\ all_scraped_data' = append_result(all_scraped_data, page_data)
                       /\ queue' = rest
                       /\ new_links' = IF may_follow_links(depth, max_depth)
                                       THEN page_data.links ELSE {}
                       /\ pc' = IF new_links' = {} THEN "while" ELSE "for"
                       /\ UNCHANGED skipped
                  ELSE /\ all_scraped_data' = data_after_failure(all_scraped_data, page_data)
                       /\ queue' = queue_after_failure(rest, current_url, depth)
                       /\ new_links' = {}
                       /\ pc' = "while"
                       /\ skipped' = Append(skipped, current_url)
    /\ UNCHANGED <<start_url, max_depth, max_pages, visited_urls, enqueued,
                   returned>>

\* lines 132-135: one pass of the for loop, the set iterated in any order
ForLink ==
    /\ pc = "for"
    /\ UNCHANGED <<scraper_vars, llm_vars, llm_cache, app_vars>>
    /\ \E link \in new_links :
         /\ IF may_enqueue(link, visited_urls, max_pages)
            THEN /\ visited_urls' = visited_urls \cup {link}
                 /\ queue' = enqueue(queue, link, current_depth)
                 /\ enqueued' = Append(enqueued, link)
            ELSE UNCHANGED <<visited_urls, queue, enqueued>>
         /\ new_links' = new_links \ {link}
         /\ pc' = IF new_links' = {} THEN "while" ELSE "for"
    /\ UNCHANGED <<start_url, max_depth, max_pages, all_scraped_data,
                   current_depth, scrape_cache, scrapes, skipped, returned>>

\* lines 119 and 140-143: the loop condition fails and the list is returned
CrawlReturn ==
    /\ pc = "while"
    /\ UNCHANGED <<scraper_vars, llm_vars, llm_cache, app_vars>>
    /\ ~while_condition(queue, all_scraped_data, max_pages)
    /\ pc' = "done"
    /\ returned' = all_scraped_data
    /\ UNCHANGED <<start_url, max_depth, max_pages, queue, visited_urls,
                   all_scraped_data, current_depth, new_links, scrape_cache,
                   scrapes, skipped, enqueued>>

Next ==
    \/ \E url \in StartUrls, md \in 0..MaxDepthBound, mp \in 1..MaxPagesBound :
         CrawlStart(url, md, mp)
    \/ WhileBody
    \/ ForLink
    \/ CrawlReturn

Spec == Init /\ [][Next]_vars

\* crawl_website is synchronous code: once called, it runs on as long as a
\* step is possible (every fetch returns within its timeout)
FairSpec == Spec /\ WF_vars(Next)

-----------------------------------------------------------------------------
(* the same crawl run twice *)

\* crawl_website called a second time with the arguments of the first call;
\* the pages scraped by the first call are served from scrape_memory, so both
\* crawls see the same fetch outcomes, and each iterates the links of a page
\* in an order of its own
Recrawl ==
    /\ pc = "done"
    /\ crawl_round = 1
    /\ crawl_round' = 2
    /\ first_returned' = returned
    /\ CrawlBegin(start_url, max_depth, max_pages)
    /\ UNCHANGED <<scraper_vars, llm_vars, llm_cache, batch_pc, websites,
                   site_index, all_results, openai_api_key_env>>

\* the repeated crawls stay one below the depth and page bounds of the
\* single crawl
OrderNext ==
    \/ \E url \in StartUrls, md \in 0..(MaxDepthBound - 1),
          mp \in 1..(MaxPagesBound - 1) :
         CrawlStart(url, md, mp)
    \/ WhileBody
    \/ ForLink
    \/ CrawlReturn
    \/ Recrawl

OrderSpec == Init /\ [][OrderNext]_vars

-----------------------------------------------------------------------------
(* scrape_page_data called on its own, and the Clear Cache button *)

\* the URLs passed to scrape_page_data: one that may redirect, and the URL
\* it redirects to
ScrapeUrls == {SeedUrl, RedirectUrl}

\* one memoized call scrape_page_data(url); fetched is what the site serves
\* at the time of the call, used only on a cache miss
ScrapeCall(url, fetched) ==
    /\ Len(scrape_calls) < MaxScrapeCalls
    /\ LET page_data == scrape_page_data(scrape_cache, url, fetched)
       IN /\ scrape_cache' = CacheAfter(scrape_cache, url, page_data)
          /\ scrape_calls' =
                Append(scrape_calls,
                       [url |-> url,
                        page_data |-> page_data,
                        did_fetch |-> url \notin DOMAIN scrape_cache,
                        live |-> scrape_page_data_uncached(url, fetched),
                        epoch |-> cache_epoch])
    /\ UNCHANGED <<crawl_vars, cache_epoch, llm_vars, llm_cache, app_vars>>

\* app.py lines 43-47: scrape_memory.clear() and llm_memory.clear()
ClearCache ==
    /\ cache_epoch < MaxCacheClears
    /\ cache_epoch' = cache_epoch + 1
    /\ scrape_cache' = <<>>
    /\ llm_cache' = <<>>
    /\ UNCHANGED <<crawl_vars, scrape_calls, llm_vars, app_vars>>

ScrapeNext ==
    \/ \E url \in ScrapeUrls : \E fetched \in FetchOutcomes(url) :
         ScrapeCall(url, fetched)
    \/ ClearCache

ScrapeSpec == Init /\ [][ScrapeNext]_vars

-----------------------------------------------------------------------------
(* llm_processor.py: the inputs of get_structured_responses *)

max_chars_for_content == 40000
max_tokens_per_response == 200
json_model == "gpt-4.1"
DefaultModel == "gpt-4.1"

RECURSIVE Repeat(_, _)
Repeat(c, k) ==
    IF k = 0 THEN ""
    ELSE IF k % 2 = 1 THEN c \o Repeat(c, k - 1)
    ELSE LET half == Repeat(c, k \div 2) IN half \o half

\* aggregated texts: empty, short, exactly at the ceiling, one over it (its
\* first and its last max_chars_for_content characters differ)
ShortText == "About us"
CeilingText == Repeat("a", max_chars_for_content)
LongText == Repeat("a", max_chars_for_content - 1) \o "bc"
TextContents == {"", ShortText, CeilingText, LongText}

\* entries of a questions_config list, as in FIXED_QUESTIONS; the last one
\* has no "type" and is treated as a text question
QConsultancy ==
    [text |-> "Is it a consultancy?", type |-> "json_yes_no",
     json_key |-> "is_consultancy_response"]
QProduct == [text |-> "What is the main product?", type |-> "text"]
QClients == [text |-> "Who are the clients?"]
QuestionSpecs == {QConsultancy, QProduct, QClients}

\* the lists of at most MaxQuestions distinct questions, in every order
Schemas ==
    {qs \in UNION {[1..n -> QuestionSpecs] : n \in 0..MaxQuestions} :
        \A i, j \in DOMAIN qs : i # j => qs[i] # qs[j]}

\* client_config dicts: no api_key, api_key None or "", and a key
ClientConfigs ==
    {[organization |-> "acme"], [api_key |-> None], [api_key |-> ""],
     [api_key |-> "sk-test"]}

Models == {DefaultModel, "gpt-4o-mini"}

EnvApiKeys == {None, "sk-env"}

\* dict.get(key, default)
Get(d, key, default) == IF key \in DOMAIN d THEN d[key] ELSE default

\* d[key] = value
SetItem(d, key, value) ==
    [k \in DOMAIN d \cup {key} |-> IF k = key THEN value ELSE d[k]]

-----------------------------------------------------------------------------
(* llm_processor.py: the model's replies and how they are read *)

Char(s, i) == SubSeq(s, i, i)

Whitespace == {" ", "\n", "\t"}

\* str.strip()
RECURSIVE Strip(_)
Strip(s) ==
    IF s = "" THEN s
    ELSE IF Char(s, 1) \in Whitespace THEN Strip(SubSeq(s, 2, Len(s)))
    ELSE IF Char(s, Len(s)) \in Whitespace THEN Strip(SubSeq(s, 1, Len(s) - 1))
    ELSE s

QuotePositions(s) == {i \in 1..Len(s) : Char(s, i) = "\""}

Smallest(S) == CHOOSE x \in S : \A y \in S : x <= y
Largest(S) == CHOOSE x \in S : \A y \in S : x >= y

\* json.loads on the replies of the model: an object with one string member,
\* the empty object, or a list of at most one string; anything else is a
\* JSONDecodeError
JsonLoads(s) ==
    LET Q == QuotePositions(s)
        n == Len(s)
        braces == n >= 2 /\ Char(s, 1) = "{" /\ Char(s, n) = "}"
        brackets == n >= 2 /\ Char(s, 1) = "[" /\ Char(s, n) = "]"
    IN IF braces /\ n = 2
       THEN [valid |-> TRUE, type |-> "dict", items |-> <<>>]
       ELSE IF braces /\ Cardinality(Q) = 4
                 /\ Smallest(Q) = 2 /\ Largest(Q) = n - 1
       THEN LET q2 == Smallest(Q \ {2})
                q3 == Largest(Q \ {n - 1})
            IN IF SubSeq(s, q2 + 1, q3 - 1) \in {":", ": "}
               THEN [valid |-> TRUE, type |-> "dict",
                     items |-> [k \in {SubSeq(s, 3, q2 - 1)} |->
                                  SubSeq(s, q3 + 1, n - 2)]]
               ELSE [valid |-> FALSE]
       ELSE IF brackets /\ (n = 2 \/ (Q = {2, n - 1} /\ n >= 4))
       THEN [valid |-> TRUE, type |-> "list"]
       ELSE [valid |-> FALSE]

\* what completion.choices[0].message.content can be
ReplyContents ==
    {None,
     " The main product is software.\n",
     "{\"is_consultancy_response\": \"Yes\"}",
     "\n{\"is_consultancy_response\":\"No\"}\n",
     "{\"is_consultancy_response\": \"Maybe\"}",
     "{\"answer\": \"Yes\"}",
     "[\"Yes\"]",
     "Yes, it is"}

\* what client.chat.completions.create can do: return a completion or raise
\* an openai.APIError or some other exception
ModelOutcomes ==
    {[raises |-> None, content |-> c] : c \in ReplyContents}
    \cup {[raises |-> "APIError", message |-> "Connection error."],
          [raises |-> "Exception", message |-> "unexpected keyword"]}

\* lines 136-180, the body of the try: the answer, or the exception raised
try_body(q_config, outcome) ==
    IF outcome.raises # None THEN outcome
    ELSE IF outcome.content = None
    THEN [raises |-> "Exception",
          message |-> "'NoneType' object has no attribute 'strip'"]
    ELSE LET answer_raw == Strip(outcome.content)
         IN IF Get(q_config, "type", "text") = "json_yes_no"
            THEN LET json_key == Get(q_config, "json_key", "answer")
                     json_response == JsonLoads(answer_raw)
                 IN IF ~json_response.valid
                    THEN [raises |-> None,
                          answer |-> "Error: Invalid JSON response"]
                    ELSE IF json_response.type # "dict"
                    THEN [raises |-> "Exception",
                          message |-> "'list' object has no attribute 'get'"]
                    ELSE [raises |-> None,
                          answer |-> Get(json_response.items, json_key,
                                         "Error: JSON key not found")]
            ELSE [raises |-> None, answer |-> answer_raw]

\* variant: only the first except clause
IsCaught_api_only(exception) == exception = "APIError"

\* lines 184 and 187: except openai.APIError, except Exception
IsCaught(exception) == exception \in {"APIError", "Exception"}

\* lines 186 and 189: the string stored for a caught exception
except_answer(raised) ==
    IF raised.raises = "APIError"
    THEN "Error: OpenAI API error - " \o raised.message
    ELSE "Error: An unexpected error: " \o raised.message

-----------------------------------------------------------------------------
(* get_structured_responses, line by line *)

CredentialError == "Error: OpenAI API key not configured for this call."
ContentError == "Error: No text content provided to analyze."

\* {q_conf["text"]: value for q_conf in questions_config}
AllMapped(qc, value) == [t \in {qc[i].text : i \in DOMAIN qc} |-> value]

\* line 111, openai.OpenAI(api_key=...): a key of None is looked up in
\* OPENAI_API_KEY, and with none there either the constructor raises
client_api_key(cc, env) ==
    LET api_key == Get(cc, "api_key", None)
    IN IF api_key = None THEN env ELSE api_key

OpenAI_raises(cc, env) == client_api_key(cc, env) = None

\* line 113: not client_config.get('api_key')
no_api_key(cc) == Falsy(Get(cc, "api_key", None))

\* variant: the text is never taken to be empty
no_text_content_never(text) == FALSE

\* line 117: not text_content
no_text_content(text) == Falsy(text)

\* variant: keeps the end of the text
truncated_tail(text) ==
    IF Len(text) > max_chars_for_content
    THEN SubSeq(text, Len(text) - max_chars_for_content + 1, Len(text))
    ELSE text

\* lines 124-129: text_content[:max_chars_for_content]
truncated(text) ==
    IF Len(text) > max_chars_for_content
    THEN SubSeq(text, 1, max_chars_for_content)
    ELSE text

\* variant: the key leaves out the schema
CacheKey_without_schema(text, qc, cc, m) == <<text, cc, m>>

\* @llm_memory.cache: the key is the tuple of arguments
CacheKey(text, qc, cc, m) == <<text, qc, cc, m>>

\* variant: a mapping that holds an error string is not stored
LlmCacheAfter_unless_error(cache, key, value) ==
    IF \E t \in DOMAIN value : StartsWith(value[t], "Error:") THEN cache
    ELSE [k \in DOMAIN cache \cup {key} |->
            IF k = key THEN value ELSE cache[k]]

LlmCacheAfter(cache, key, value) ==
    [k \in DOMAIN cache \cup {key} |-> IF k = key THEN value ELSE cache[k]]

\* one ended call of get_structured_responses, for the history; a call that
\* raised returned nothing, which the entry holds as the empty mapping
LogEntry(text, qc, cc, m, env, hit, ended, result, calls) ==
    [text_content |-> text, questions_config |-> qc, client_config |-> cc,
     model |-> m, env_api_key |-> env, epoch |-> cache_epoch,
     cache_hit |-> hit, ended |-> ended, returned |-> result,
     model_calls |-> calls]

\* lines 96-129 of a new call: the cache lookup, the client, the two checks
\* and the truncation
LlmInvoke(text, qc, cc, m, env) ==
    /\ text_content' = text
    /\ questions_config' = qc
    /\ client_config' = cc
    /\ model' = m
    /\ env_api_key' = env
    /\ LET key == CacheKey(text, qc, cc, m)
           ended(hit, how, result) ==
               llm_log' = Append(llm_log,
                                 LogEntry(text, qc, cc, m, env, hit, how,
                                          result, <<>>))
       IN IF key \in DOMAIN llm_cache
          THEN /\ llm_pc' = "done"
               /\ llm_returned' = llm_cache[key]
               /\ ended(TRUE, "done", llm_returned')
               /\ UNCHANGED <<llm_cache, text_content_for_llm, responses>>
          ELSE IF OpenAI_raises(cc, env)
          THEN /\ llm_pc' = "raised"
               /\ llm_returned' = None
               /\ ended(FALSE, "raised", <<>>)
               /\ UNCHANGED <<llm_cache, text_content_for_llm, responses>>
          ELSE IF no_api_key(cc)
          THEN /\ llm_pc' = "done"
               /\ llm_returned' = AllMapped(qc, CredentialError)
               /\ llm_cache' = LlmCacheAfter(llm_cache, key, llm_returned')
               /\ ended(FALSE, "done", llm_returned')
               /\ UNCHANGED <<text_content_for_llm, responses>>
          ELSE IF no_text_content(text)
          THEN /\ llm_pc' = "done"
               /\ llm_returned' = AllMapped(qc, ContentError)
               /\ llm_cache' = LlmCacheAfter(llm_cache, key, llm_returned')
               /\ ended(FALSE, "done", llm_returned')
               /\ UNCHANGED <<text_content_for_llm, responses>>
          ELSE /\ llm_pc' = "loop"
               /\ responses' = <<>>
               /\ text_content_for_llm' = truncated(text)
               /\ llm_returned' = None
               /\ UNCHANGED <<llm_cache, llm_log>>
    /\ q_index' = 0
    /\ model_calls' = <<>>

\* get_structured_responses(text, qc, cc, m) called once
LlmCall(text, qc, cc, m, env) ==
    /\ llm_pc = "idle"
    /\ LlmInvoke(text, qc, cc, m, env)
    /\ UNCHANGED <<crawl_vars, scrape_cache, scraper_vars, app_vars>>

\* lines 131-189: one iteration of the for loop, with one call of the model
\* whose outcome is one of outcomes
LlmQuestionFrom(outcomes) ==
    /\ llm_pc = "loop"
    /\ q_index < Len(questions_config)
    /\ LET q_config == questions_config[q_index + 1]
           question_text == q_config.text
           is_json == Get(q_config, "type", "text") = "json_yes_no"
           current_model == IF is_json THEN json_model ELSE model
       IN \E outcome \in outcomes :
            LET result == try_body(q_config, outcome)
            IN /\ model_calls' =
                     Append(model_calls,
                            [model |-> current_model,
                             question |-> question_text,
                             website_content |-> text_content_for_llm,
                             response_format |->
                                 IF is_json THEN "json_object" ELSE None,
                             max_tokens |-> max_tokens_per_response,
                             outcome |-> outcome])
               /\ IF result.raises = None
                  THEN /\ responses' =
                            SetItem(responses, question_text, result.answer)
                       /\ q_index' = q_index + 1
                       /\ llm_pc' = "loop"
                       /\ UNCHANGED llm_log
                  ELSE IF IsCaught(result.raises)
                  THEN /\ responses' =
                            SetItem(responses, question_text,
                                    except_answer(result))
                       /\ q_index' = q_index + 1
                       /\ llm_pc' = "loop"
                       /\ UNCHANGED llm_log
                  ELSE /\ llm_pc' = "raised"
                       /\ llm_log' =
                            Append(llm_log,
                                   LogEntry(text_content, questions_config,
                                            client_config, model, env_api_key,
                                            FALSE, "raised", <<>>,
                                            model_calls'))
                       /\ UNCHANGED <<responses, q_index>>
    /\ UNCHANGED <<text_content, questions_config, client_config, model,
                   env_api_key, text_content_for_llm, llm_returned, llm_cache>>
    /\ UNCHANGED <<crawl_vars, scrape_cache, scraper_vars, app_vars>>

LlmQuestion == LlmQuestionFrom(ModelOutcomes)

\* line 191: the loop is over, the mapping is returned and memoized
LlmReturn ==
    /\ llm_pc = "loop"
    /\ q_index = Len(questions_config)
    /\ llm_pc' = "done"
    /\ llm_returned' = responses
    /\ llm_cache' =
          LlmCacheAfter(llm_cache,
                        CacheKey(text_content, questions_config,
                                 client_config, model),
                        responses)
    /\ llm_log' =
          Append(llm_log,
                 LogEntry(text_content, questions_config, client_config,
                          model, env_api_key, FALSE, "done", responses,
                          model_calls))
    /\ UNCHANGED <<text_content, questions_config, client_config, model,
                   env_api_key, text_content_for_llm, q_index, responses,
                   model_calls>>
    /\ UNCHANGED <<crawl_vars, scrape_cache, scraper_vars, app_vars>>

LlmNext ==
    \/ \E text \in TextContents, qc \in Schemas, cc \in ClientConfigs,
          m \in Models, env \in EnvApiKeys :
         LlmCall(text, qc, cc, m, env)
    \/ LlmQuestion
    \/ LlmReturn

LlmSpec == Init /\ [][LlmNext]_vars

\* get_structured_responses is synchronous code and every call of the model
\* returns or raises
LlmFairSpec == LlmSpec /\ WF_vars(LlmNext)

-----------------------------------------------------------------------------
(* get_structured_responses called again and again, and the Clear Cache
   button *)

\* the inputs of the repeated calls: one tuple of arguments and the tuples
\* that differ from it in one component (the text, the order of the schema,
\* the text of one question, the api_key, the model)
QProductEdited == [text |-> "What is the main service?", type |-> "text"]

RecallBase ==
    [text |-> ShortText, qc |-> <<QConsultancy, QProduct>>,
     cc |-> [api_key |-> "sk-test"], m |-> DefaultModel]

RecallInputs ==
    {RecallBase,
     [RecallBase EXCEPT !.text = "Contact us"],
     [RecallBase EXCEPT !.qc = <<QProduct, QConsultancy>>],
     [RecallBase EXCEPT !.qc = <<QConsultancy, QProductEdited>>],
     [RecallBase EXCEPT !.cc = [api_key |-> None]],
     [RecallBase EXCEPT !.m = "gpt-4o-mini"]}

\* a reply and a transient failure of the model
RecallOutcomes ==
    {[raises |-> None, content |-> "{\"is_consultancy_response\": \"Yes\"}"],
     [raises |-> "APIError", message |-> "Connection error."]}

\* get_structured_responses called after an earlier call has ended
LlmRecall(text, qc, cc, m, env) ==
    /\ llm_pc \in {"done", "raised"}
    /\ Len(llm_log) < MaxLlmCalls
    /\ LlmInvoke(text, qc, cc, m, env)
    /\ UNCHANGED <<crawl_vars, scrape_cache, scraper_vars, app_vars>>

\* the button is handled by a run of the script, never inside a running call
ClearCacheBetweenCalls ==
    /\ llm_pc # "loop"
    /\ ClearCache

LlmCacheNext ==
    \/ \E in \in RecallInputs, env \in EnvApiKeys :
         \/ LlmCall(in.text, in.qc, in.cc, in.m, env)
         \/ LlmRecall(in.text, in.qc, in.cc, in.m, env)
    \/ LlmQuestionFrom(RecallOutcomes)
    \/ LlmReturn
    \/ ClearCacheBetweenCalls

LlmCacheSpec == Init /\ [][LlmCacheNext]_vars

-----------------------------------------------------------------------------
(* app.py: the batch analysis of every website of the roster *)

MaxSites == 2

\* the FIXED_QUESTIONS of the model and their texts, the columns of the table
BatchQuestions == <<QConsultancy, QProduct>>

question_texts == [i \in DOMAIN BatchQuestions |-> BatchQuestions[i].text]

QuestionTextSet == {question_texts[i] : i \in DOMAIN question_texts}

column_order == <<"Website URL">> \o question_texts

\* get_website_list: the distinct valid URLs of the Website column, in order
RosterUrls == {SeedUrl, "https://ex.com/a"}

Rosters ==
    {ws \in UNION {[1..n -> RosterUrls] : n \in 1..MaxSites} :
        \A i, j \in DOMAIN ws : i # j => ws[i] # ws[j]}

\* what can be raised inside the try of one site apart from what the two
\* memoized functions catch themselves (the cache directory cannot be
\* written, say)
BatchExceptionMessages == {"[Errno 28] No space left on device"}

PageSeparator == "\n\n--- Page Separator ---\n\n"

\* line 164: the page has text and no error
page_has_text(page_data) == ~Falsy(page_data.text) /\ Falsy(page_data.error)

\* lines 158-168: the texts of the crawled pages, each followed by the
\* separator
RECURSIVE aggregated_site_text(_)
aggregated_site_text(pages) ==
    IF pages = <<>> THEN ""
    ELSE (IF page_has_text(Head(pages))
          THEN Head(pages).text \o PageSeparator ELSE "")
         \o aggregated_site_text(Tail(pages))

\* a row whose every question column holds value
RowOf(website_url, value) ==
    [col \in {"Website URL"} \cup QuestionTextSet |->
        IF col = "Website URL" THEN website_url ELSE value]

\* lines 170-173
default_result(website_url) ==
    RowOf(website_url,
          "Error: Crawling failed, no content, or AI analysis issue")

\* dict.update
Update(d, e) ==
    [k \in DOMAIN d \cup DOMAIN e |-> IF k \in DOMAIN e THEN e[k] ELSE d[k]]

\* lines 199-201
error_result(website_url, e) == RowOf(website_url, "Error: " \o e)

\* variant: the handler records nothing
results_after_exception_dropped(results, website_url, e) == results

\* line 202
results_after_exception(results, website_url, e) ==
    Append(results, error_result(website_url, e))

\* lines 209-217, pd.DataFrame(all_results) with the columns of
\* column_order: a column that no row has is filled in, a cell that only its
\* own row lacks is NaN
NaN == "NaN"

results_df(results) ==
    [i \in DOMAIN results |->
        [col \in {column_order[c] : c \in DOMAIN column_order} |->
            IF col \in DOMAIN results[i] THEN results[i][col]
            ELSE IF \E j \in DOMAIN results : col \in DOMAIN results[j]
                 THEN NaN
                 ELSE "Not processed/Missing"]]

\* lines 139-150: the button is pressed; without a key there is no batch
BatchStart(sites, md, mp, key) ==
    /\ batch_pc = "idle"
    /\ openai_api_key_env' = key
    /\ IF Falsy(key)
       THEN /\ batch_pc' = "refused"
            /\ UNCHANGED <<websites, max_depth, max_pages, all_results,
                           site_index>>
       ELSE /\ batch_pc' = "site"
            /\ websites' = sites
            /\ max_depth' = md
            /\ max_pages' = mp
            /\ all_results' = <<>>
            /\ site_index' = 0
    /\ UNCHANGED <<pc, start_url, queue, visited_urls, all_scraped_data,
                   current_depth, new_links, scrapes, skipped, enqueued,
                   returned, scrape_cache, scraper_vars, llm_vars, llm_cache,
                   crawl_round, first_returned>>

\* lines 152-156: the next site of the roster, crawl_website is called
BatchCrawl ==
    /\ batch_pc = "site"
    /\ site_index < Len(websites)
    /\ batch_pc' = "crawl"
    /\ CrawlBegin(websites[site_index + 1], max_depth, max_pages)
    /\ UNCHANGED <<scraper_vars, llm_vars, llm_cache, crawl_round,
                   first_returned, websites, site_index, all_results,
                   openai_api_key_env>>

\* lines 158-195 up to the call of get_structured_responses: the pages are
\* aggregated; with text the model is asked, without it the row is written
BatchAggregate ==
    /\ batch_pc = "crawl"
    /\ pc = "done"
    /\ LET website_url == websites[site_index + 1]
           crawled_pages_data == returned
           text == aggregated_site_text(crawled_pages_data)
           current_result == default_result(website_url)
       IN IF text # ""
          THEN /\ LlmInvoke(text, BatchQuestions,
                            [api_key |-> openai_api_key_env], DefaultModel,
                            openai_api_key_env)
               /\ batch_pc' = "llm"
               /\ UNCHANGED <<all_results, site_index>>
          ELSE /\ all_results' =
                     Append(all_results,
                            Update(current_result,
                                   AllMapped(BatchQuestions,
                                             IF crawled_pages_data # <<>>
                                             THEN "No text content from crawl"
                                             ELSE "Crawling returned no data")))
               /\ site_index' = site_index + 1
               /\ batch_pc' = "site"
               /\ UNCHANGED <<llm_vars, llm_cache>>
    /\ UNCHANGED <<crawl_vars, scrape_cache, scraper_vars, crawl_round,
                   first_returned, websites, openai_api_key_env>>

\* lines 181-195: get_structured_responses has returned, the row is updated
\* with the answers and appended
BatchAppend ==
    /\ batch_pc = "llm"
    /\ llm_pc = "done"
    /\ LET website_url == websites[site_index + 1]
           ai_responses == llm_returned
       IN all_results' =
             Append(all_results,
                    Update(default_result(website_url), ai_responses))
    /\ site_index' = site_index + 1
    /\ batch_pc' = "site"
    /\ UNCHANGED <<crawl_vars, scrape_cache, scraper_vars, llm_vars, llm_cache,
                   crawl_round, first_returned, websites, openai_api_key_env>>

\* lines 197-204: an exception leaves crawl_website or
\* get_structured_responses; the handler writes the error row and the loop
\* goes on
BatchException ==
    /\ \/ batch_pc = "crawl" /\ pc \in {"while", "for"}
       \/ batch_pc = "llm" /\ llm_pc = "loop"
    /\ \E e \in BatchExceptionMessages :
         all_results' =
            results_after_exception(all_results, websites[site_index + 1], e)
    /\ site_index' = site_index + 1
    /\ batch_pc' = "site"
    /\ IF batch_pc = "crawl"
       THEN /\ pc' = "raised"
            /\ UNCHANGED <<llm_vars, llm_cache>>
       ELSE /\ llm_pc' = "raised"
            /\ llm_log' =
                  Append(llm_log,
                         LogEntry(text_content, questions_config,
                                  client_config, model, env_api_key, FALSE,
                                  "raised", <<>>, model_calls))
            /\ UNCHANGED <<pc, text_content, questions_config, client_config,
                           model, env_api_key, text_content_for_llm, q_index,
                           responses, model_calls, llm_returned, llm_cache>>
    /\ UNCHANGED <<start_url, max_depth, max_pages, queue, visited_urls,
                   all_scraped_data, current_depth, new_links, scrapes,
                   skipped, enqueued, returned, scrape_cache, scraper_vars,
                   crawl_round, first_returned, websites, openai_api_key_env>>

\* lines 152 and 206-217: the roster is exhausted and the table is built
BatchFinish ==
    /\ batch_pc = "site"
    /\ site_index = Len(websites)
    /\ batch_pc' = "done"
    /\ UNCHANGED <<crawl_vars, scrape_cache, scraper_vars, llm_vars, llm_cache,
                   crawl_round, first_returned, websites, site_index,
                   all_results, openai_api_key_env>>

BatchNext ==
    \/ \E sites \in Rosters, md \in 0..(MaxDepthBound - 1),
          mp \in 1..(MaxPagesBound - 3), key \in EnvApiKeys :
         BatchStart(sites, md, mp, key)
    \/ BatchCrawl
    \/ WhileBody
    \/ ForLink
    \/ CrawlReturn
    \/ BatchAggregate
    \/ LlmQuestionFrom(RecallOutcomes)
    \/ LlmReturn
    \/ BatchAppend
    \/ BatchException
    \/ BatchFinish

BatchSpec == Init /\ [][BatchNext]_vars

-----------------------------------------------------------------------------
(* Properties of crawl_website *)

ScrapedUrls == {scrapes[i].url : i \in 1..Len(scrapes)}

QueuedUrls == {queue[i][1] : i \in 1..Len(queue)}

Failed(page_data) == ~Falsy(page_data.error)

\* C1: once crawl_website has been called with max_pages >= 1, the visited
\* set never holds more than max_pages URLs, at any point of the loop.
C1_VisitedWithinMaxPages ==
    pc # "idle" => Cardinality(visited_urls) <= max_pages

\* the cap is what refuses a link: the for loop meets a new link with the
\* visited set already holding max_pages URLs
C1_Witness ==
    /\ pc = "for"
    /\ Cardinality(visited_urls) = max_pages
    /\ new_links \ visited_urls # {}

\* C2: the list crawl_website accumulates and returns never holds more than
\* max_pages PageResults.
C2_ReturnedWithinMaxPages ==
    /\ Len(all_scraped_data) <= max_pages
    /\ pc = "done" => Len(returned) <= max_pages

\* a crawl that returns exactly max_pages results of a site with more pages
C2_Witness ==
    /\ pc = "done"
    /\ max_pages >= 2
    /\ Len(returned) = max_pages
    /\ \E i \in 1..Len(returned) : returned[i].links \ visited_urls # {}

\* C3: the number of scrape_page_data calls of one crawl, failed ones
\* included, never exceeds max_pages.
C3_FetchesWithinMaxPages ==
    Len(scrapes) <= max_pages

\* max_pages calls were made, one of them failed, so fewer than max_pages
\* results were accumulated and the loop condition alone did not stop the crawl
C3_Witness ==
    /\ pc = "done"
    /\ max_pages >= 2
    /\ Len(scrapes) = max_pages
    /\ Len(returned) < max_pages
    /\ \E i \in 1..Len(scrapes) : Failed(scrapes[i].page_data)

\* C4: no URL is passed to scrape_page_data twice in one crawl: queued URLs
\* are distinct, are in the visited set, and have not been scraped before.
C4_NoUrlScrapedTwice ==
    /\ \A i, j \in 1..Len(scrapes) : i # j => scrapes[i].url # scrapes[j].url
    /\ \A i, j \in 1..Len(queue) : i # j => queue[i][1] # queue[j][1]
    /\ QueuedUrls \cap ScrapedUrls = {}
    /\ QueuedUrls \cup ScrapedUrls \subseteq visited_urls

\* a later page links back to the seed while its links are being enqueued
C4_Witness ==
    /\ pc = "for"
    /\ Len(scrapes) >= 2
    /\ start_url \in new_links

\* C5: no URL is enqueued or scraped at a depth greater than max_depth.
C5_DepthWithinMaxDepth ==
    /\ \A i \in 1..Len(queue) : queue[i][2] <= max_depth
    /\ \A i \in 1..Len(scrapes) : scrapes[i].depth <= max_depth

\* a page at depth max_depth has new links and the visited set has room, yet
\* nothing is enqueued
C5_Witness ==
    /\ pc = "while"
    /\ max_depth >= 1
    /\ Len(scrapes) >= 1
    /\ LET last == scrapes[Len(scrapes)]
       IN /\ last.depth = max_depth
          /\ last.page_data.links \ visited_urls # {}
          /\ Cardinality(visited_urls) < max_pages

\* C6: with max_depth = 0 nothing beyond the seed is ever enqueued or scraped,
\* and the output holds at most one PageResult, the one that scraping
\* start_url produced.
C6_DepthZeroOnlySeed ==
    (pc # "idle" /\ max_depth = 0) =>
        /\ visited_urls \subseteq {start_url}
        /\ QueuedUrls \subseteq {start_url}
        /\ ScrapedUrls \subseteq {start_url}
        /\ Len(enqueued) <= 1
        /\ Len(all_scraped_data) <= 1
        /\ \A i \in 1..Len(all_scraped_data) :
             all_scraped_data[i] = scrape_cache[start_url]
        /\ pc = "done" =>
             /\ Len(returned) <= 1
             /\ \A i \in 1..Len(returned) : returned[i] = scrape_cache[start_url]

\* a depth-0 crawl with room for more pages whose seed page has links (and was
\* redirected, so that the result's url field is not start_url)
C6_Witness ==
    /\ pc = "done"
    /\ max_depth = 0
    /\ max_pages >= 2
    /\ Len(returned) = 1
    /\ returned[1].links # {}
    /\ returned[1].url # start_url

PageDataOf(records) == [i \in 1..Len(records) |-> records[i].page_data]

UrlsOf(records) == [i \in 1..Len(records) |-> records[i].url]

IsFailedScrape(r) == Failed(r.page_data)

IsSuccessfulScrape(r) == ~Failed(r.page_data)

C8_FailureDoesNotAbort ==
    /\ [][(/\ Len(scrapes') = Len(scrapes) + 1
           /\ Failed(scrapes'[Len(scrapes')].page_data))
          => (pc' = "while" /\ queue' = Tail(queue))]_vars
    /\ \A u \in SiteUrls :
         (u \in QueuedUrls) ~>
             (u \in ScrapedUrls \/ Len(all_scraped_data) >= max_pages)

\* a URL is scraped after an earlier scrape of the crawl has failed
C8_Witness ==
    \E i, j \in 1..Len(scrapes) : i < j /\ Failed(scrapes[i].page_data)

\* what is left to do: room in the visited set, queue entries, links to iterate
Variant ==
    IF pc = "done" THEN 0
    ELSE 1 + Cardinality(new_links)
           + (Cardinality(SiteUrls) + 1)
               * (2 * (max_pages - Cardinality(visited_urls)) + Len(queue))

\* C9: every crawl terminates; each step of the loop uses up room in the
\* visited set, a queue entry or a link of the for loop.
C9_CrawlTerminates ==
    /\ (pc \in {"while", "for"}) ~> (pc = "done")
    /\ [][(pc \in {"while", "for"}) => (Variant' < Variant)]_vars

\* a finished crawl over a cyclic link graph, with a failed page
C9_Witness ==
    /\ pc = "done"
    /\ \E i \in 1..Len(scrapes) : Failed(scrapes[i].page_data)
    /\ \E i \in 1..Len(scrapes) : start_url \in scrapes[i].page_data.links

\* C10: URLs are scraped in the order they were enqueued; depths of scraped
\* URLs never decrease and nothing queued is shallower than a scraped URL;
\* the result list is in scrape order.
C10_BreadthFirstOrder ==
    /\ UrlsOf(scrapes) \o [i \in 1..Len(queue) |-> queue[i][1]] = enqueued
    /\ \A i, j \in 1..Len(scrapes) : i < j => scrapes[i].depth <= scrapes[j].depth
    /\ \A i, j \in 1..Len(queue) : i < j => queue[i][2] <= queue[j][2]
    /\ \A i \in 1..Len(scrapes), j \in 1..Len(queue) :
         scrapes[i].depth <= queue[j][2]
    /\ all_scraped_data = PageDataOf(SelectSeq(scrapes, IsSuccessfulScrape))
    /\ pc = "done" /\ has_valid_scheme(start_url) => returned = all_scraped_data

\* the queue holds URLs of two depths at once
C10_Witness ==
    /\ Len(queue) >= 2
    /\ queue[1][2] < queue[Len(queue)][2]

\* links of a URL as far as the crawl has seen them
LinksOf(url) ==
    IF url \in DOMAIN scrape_cache THEN scrape_cache[url].links ELSE {}

\* URLs within k link hops of the seed
RECURSIVE ReachableWithin(_)
ReachableWithin(k) ==
    IF k = 0 THEN {start_url}
    ELSE LET R == ReachableWithin(k - 1)
         IN R \cup UNION {LinksOf(u) : u \in R}

AllFetchesSucceeded ==
    \A i \in 1..Len(scrapes) : ~Failed(scrapes[i].page_data)

\* C11: when every fetch succeeds and at most max_pages URLs are within
\* max_depth link hops of the seed, the finished crawl has scraped the seed
\* first and each of those URLs exactly once, returns one PageResult for each,
\* and its queue is empty.
C11_ReachableAllScraped ==
    (/\ pc = "done"
     /\ has_valid_scheme(start_url)
     /\ AllFetchesSucceeded
     /\ Cardinality(ReachableWithin(max_depth)) <= max_pages)
    => /\ scrapes[1].url = start_url
       /\ ScrapedUrls = ReachableWithin(max_depth)
       /\ Len(scrapes) = Cardinality(ReachableWithin(max_depth))
       /\ Len(returned) = Len(scrapes)
       /\ \A i \in 1..Len(returned) : returned[i] = scrapes[i].page_data
       /\ queue = <<>>

\* the scenario of a seed with two internal links and max_depth 1, with room
\* left under max_pages: three PageResults
C11_Witness ==
    /\ pc = "done"
    /\ max_depth = 1
    /\ max_pages > 3
    /\ AllFetchesSucceeded
    /\ Len(returned) = 3
    /\ Cardinality(returned[1].links \ {start_url}) = 2

\* C12: with max_pages = 1 and a successfully fetched seed the crawl returns
\* exactly one PageResult; and in no step taken with the visited set holding
\* max_pages URLs is anything enqueued.
C12_NothingEnqueuedAtCap ==
    /\ [](pc = "done" /\ max_pages = 1 /\ Len(scrapes) >= 1
            /\ ~Failed(scrapes[1].page_data)
          => Len(returned) = 1 /\ Len(scrapes) = 1 /\ Len(enqueued) = 1)
    /\ [][(pc \in {"while", "for"} /\ Cardinality(visited_urls) >= max_pages)
          => (/\ enqueued' = enqueued
              /\ visited_urls' = visited_urls
              /\ Len(queue') <= Len(queue))]_vars

\* max_pages = 1, max_depth = 2 and a seed page with links to other pages
C12_Witness ==
    /\ pc = "done"
    /\ max_pages = 1
    /\ max_depth = 2
    /\ Len(returned) = 1
    /\ Cardinality(returned[1].links \ {start_url}) >= 2

\* C13: a start_url without an http or https scheme returns the empty list
\* at once: the scraper is never called and the scrape cache stays empty.
C13_InvalidSchemeReturnsEmpty ==
    (/\ pc # "idle"
     /\ ~StartsWith(start_url, "http://")
     /\ ~StartsWith(start_url, "https://"))
    => /\ pc = "done"
       /\ returned = <<>>
       /\ scrapes = <<>>
       /\ enqueued = <<>>
       /\ DOMAIN scrape_cache = {}

C13_Witness ==
    /\ pc = "done"
    /\ start_url = InvalidSeed

\* r has no error, or has neither text nor links
ErrorFieldsConsistent(r) == r.error # None => (r.text = None /\ r.links = {})

\* C14: a PageResult with an error has no text (None) and no links.
C14_ErrorMeansNoTextNoLinks ==
    /\ \A i \in 1..Len(scrapes) : ErrorFieldsConsistent(scrapes[i].page_data)
    /\ \A u \in DOMAIN scrape_cache : ErrorFieldsConsistent(scrape_cache[u])

\* both kinds occur: a failed result, and a successful one with empty text and
\* no links (the converse does not hold)
C14_Witness ==
    /\ \E i \in 1..Len(scrapes) : scrapes[i].page_data.error # None
    /\ \E i \in 1..Len(scrapes) :
         LET r == scrapes[i].page_data
         IN r.error = None /\ r.text = "" /\ r.links = {}

\* C15: two scrape_page_data calls with the same URL and no cache clear in
\* between return the same PageResult and the later one does not fetch, also
\* when the site would now serve something else or the first call failed;
\* the cache is keyed by the URL as passed, so the first call for a URL
\* fetches even when an earlier call was redirected to that URL.
C15_SecondScrapeIsMemoized ==
    /\ \A i, j \in 1..Len(scrape_calls) :
         (/\ i < j
          /\ scrape_calls[i].url = scrape_calls[j].url
          /\ scrape_calls[i].epoch = scrape_calls[j].epoch)
         => /\ scrape_calls[j].page_data = scrape_calls[i].page_data
            /\ ~scrape_calls[j].did_fetch
    /\ \A j \in 1..Len(scrape_calls) :
         (\A i \in 1..(j - 1) :
             \/ scrape_calls[i].url # scrape_calls[j].url
             \/ scrape_calls[i].epoch # scrape_calls[j].epoch)
         => /\ scrape_calls[j].did_fetch
            /\ scrape_calls[j].page_data = scrape_calls[j].live
    /\ DOMAIN scrape_cache \subseteq {scrape_calls[i].url : i \in 1..Len(scrape_calls)}

\* the first call failed, and at the second call with the same URL the site
\* would serve a page
C15_Witness ==
    /\ Len(scrape_calls) = 2
    /\ scrape_calls[1].url = scrape_calls[2].url
    /\ scrape_calls[1].epoch = scrape_calls[2].epoch
    /\ scrape_calls[1].page_data.error # None
    /\ scrape_calls[2].live.error = None
    /\ scrape_calls[2].page_data = scrape_calls[1].page_data

-----------------------------------------------------------------------------
(* Properties of get_structured_responses *)

QuestionTexts == {questions_config[i].text : i \in DOMAIN questions_config}

\* the call has ended, by a return or by an exception
LlmEnded == llm_pc \in {"done", "raised"}

CredentialsAbsent ==
    \/ "api_key" \notin DOMAIN client_config
    \/ client_config.api_key \in {None, ""}

\* C16: whatever the input, get_structured_responses returns a mapping whose
\* keys are exactly the question texts of the schema.
C16_AnswerMapComplete ==
    LlmEnded => (llm_pc = "done" /\ DOMAIN llm_returned = QuestionTexts)

\* C17: without an api_key in client_config the call makes no model call,
\* raises nothing and returns the credential placeholder for every question.
C17_NoCredentialsAllPlaceholders ==
    (LlmEnded /\ CredentialsAbsent)
    => /\ llm_pc = "done"
       /\ model_calls = <<>>
       /\ llm_returned = AllMapped(questions_config, CredentialError)

\* C18: with an api_key and an empty text the call makes no model call and
\* returns the content-error string for every question.
C18_EmptyTextAllContentErrors ==
    (llm_pc # "idle" /\ ~CredentialsAbsent /\ text_content = "")
    => /\ llm_pc = "done"
       /\ model_calls = <<>>
       /\ DOMAIN llm_returned = QuestionTexts
       /\ \A t \in QuestionTexts :
            llm_returned[t] = "Error: No text content provided to analyze."

C18_Witness ==
    /\ llm_pc = "done"
    /\ text_content = ""
    /\ client_config = [api_key |-> "sk-test"]
    /\ Len(questions_config) = 2
    /\ model_calls = <<>>

\* replies that answer a yes/no question in the JSON form asked for
WellFormedJsonReplies ==
    {"{\"is_consultancy_response\": \"Yes\"}",
     "\n{\"is_consultancy_response\":\"No\"}\n",
     "{\"is_consultancy_response\": \"Maybe\"}"}

\* the i-th model call raised, had no content, or answered a yes/no question
\* with something else than the JSON asked for
CallFailed(i) ==
    \/ model_calls[i].outcome.raises # None
    \/ model_calls[i].outcome.content = None
    \/ /\ model_calls[i].response_format = "json_object"
       /\ model_calls[i].outcome.content \notin WellFormedJsonReplies

\* C19: with an api_key and a non-empty text there is exactly one model call
\* per question, in schema order; a call that fails leaves an error string as
\* that question's value, no exception leaves the function, and the loop goes
\* on to the return with every question answered.
C19_FailureIsolation ==
    /\ [](((llm_pc # "idle") /\ ~CredentialsAbsent /\ (text_content # ""))
          => /\ llm_pc \in {"loop", "done"}
             /\ Len(model_calls) = q_index
             /\ llm_pc = "done" => q_index = Len(questions_config)
             /\ llm_pc = "done" => llm_returned = responses
             /\ DOMAIN responses = {questions_config[i].text : i \in 1..q_index}
             /\ \A i \in 1..q_index :
                  /\ model_calls[i].question = questions_config[i].text
                  /\ CallFailed(i) =>
                       StartsWith(responses[questions_config[i].text], "Error:"))
    /\ [][(llm_pc = "loop") => (llm_pc' = "done" \/ q_index' = q_index + 1)]_vars
    /\ ((llm_pc = "loop") ~> (llm_pc = "done"))

\* the first of two model calls raised an API error and the second question
\* was answered all the same
C19_Witness ==
    /\ llm_pc = "done"
    /\ Len(model_calls) = 2
    /\ model_calls[1].outcome.raises = "APIError"
    /\ model_calls[2].outcome.raises = None
    /\ ~CallFailed(2)
    /\ StartsWith(llm_returned[questions_config[1].text], "Error:")
    /\ ~StartsWith(llm_returned[questions_config[2].text], "Error:")

\* the first 40,000 characters of LongText
LongTextHead == Repeat("a", 39999) \o "b"

\* C20: every model call of an invocation carries the first 40,000
\* characters of a text longer than that, and the whole text otherwise.
C20_TruncationDeterminism ==
    \A i \in 1..Len(model_calls) :
        LET sent == model_calls[i].website_content
        IN /\ Len(text_content) > 40000 =>
                (Len(sent) = 40000 /\ sent = SubSeq(text_content, 1, 40000))
           /\ Len(text_content) <= 40000 => sent = text_content
           /\ text_content = LongText => sent = LongTextHead
           /\ model_calls[1].website_content = sent

\* two questions asked about a text of 40,001 characters
C20_Witness ==
    /\ llm_pc = "done"
    /\ Len(text_content) = 40001
    /\ Len(model_calls) = 2
    /\ Len(model_calls[1].website_content) = 40000
    /\ Len(model_calls[2].website_content) = 40000

\* the answer stored for the i-th model call, once the loop has passed it
AnswerOfCall(i) == responses[model_calls[i].question]

\* the model calls of yes/no questions that returned a reply with content
JsonRepliesSoFar ==
    {i \in 1..q_index :
        /\ model_calls[i].response_format = "json_object"
        /\ model_calls[i].outcome.raises = None
        /\ model_calls[i].outcome.content # None}

\* C21: for a yes/no question with key is_consultancy_response, a JSON object
\* with that key gives the value under it, a reply that is not valid JSON
\* gives the parse-error placeholder, valid JSON without the key gives the
\* key-missing placeholder, and no exception leaves the function.
C21_JsonReplyHandling ==
    /\ llm_pc = "raised" => CredentialsAbsent
    /\ \A i \in JsonRepliesSoFar :
         LET reply == model_calls[i].outcome.content
         IN /\ reply = "{\"is_consultancy_response\": \"Yes\"}"
                 => AnswerOfCall(i) = "Yes"
            /\ reply = "\n{\"is_consultancy_response\":\"No\"}\n"
                 => AnswerOfCall(i) = "No"
            /\ reply = "{\"is_consultancy_response\": \"Maybe\"}"
                 => AnswerOfCall(i) = "Maybe"
            /\ reply \in {"Yes, it is", " The main product is software.\n"}
                 => AnswerOfCall(i) = "Error: Invalid JSON response"
            /\ reply \in {"{\"answer\": \"Yes\"}", "[\"Yes\"]"}
                 => AnswerOfCall(i) = "Error: JSON key not found"

\* C24: the value stored for a yes/no question is "Yes", "No" or an error
\* placeholder, whatever JSON object the model returned.
C24_YesNoShapeEnforced ==
    \A i \in JsonRepliesSoFar :
        \/ AnswerOfCall(i) \in {"Yes", "No"}
        \/ StartsWith(AnswerOfCall(i), "Error:")

-----------------------------------------------------------------------------
(* Properties of the memoization of get_structured_responses *)

\* the i-th and the j-th ended call had the same input tuple
SameInputTuple(i, j) ==
    /\ llm_log[i].text_content = llm_log[j].text_content
    /\ llm_log[i].questions_config = llm_log[j].questions_config
    /\ llm_log[i].client_config = llm_log[j].client_config
    /\ llm_log[i].model = llm_log[j].model

\* call i returned a mapping, and call j came later with the same input
\* tuple and no cache clear in between
RepeatsReturnedCall(i, j) ==
    /\ i < j
    /\ SameInputTuple(i, j)
    /\ llm_log[i].epoch = llm_log[j].epoch
    /\ llm_log[i].ended = "done"

\* the input tuple of call j was not that of any earlier call that returned
\* since the last cache clear
IsNewInput(j) == \A i \in 1..(j - 1) : ~RepeatsReturnedCall(i, j)

\* C22: a call that repeats the input tuple of an earlier call, with no cache
\* clear in between, makes no model call and returns the mapping of that
\* call; a call whose tuple differs in any component (text, schema order, a
\* question text, api_key, model) runs again, with one model call per
\* question when it has an api_key and a text.
C22_MemoizedByInputTuple ==
    /\ \A i, j \in 1..Len(llm_log) :
         RepeatsReturnedCall(i, j)
         => /\ llm_log[j].ended = "done"
            /\ llm_log[j].model_calls = <<>>
            /\ llm_log[j].returned = llm_log[i].returned
    /\ \A j \in 1..Len(llm_log) :
         (/\ IsNewInput(j)
          /\ llm_log[j].client_config.api_key \notin {None, ""}
          /\ llm_log[j].text_content # "")
         => /\ llm_log[j].ended = "done"
            /\ Len(llm_log[j].model_calls) = Len(llm_log[j].questions_config)
            /\ \A n \in 1..Len(llm_log[j].model_calls) :
                 llm_log[j].model_calls[n].question =
                     llm_log[j].questions_config[n].text

\* the second call repeats the first, which had called the model
C22_Witness ==
    /\ Len(llm_log) = 2
    /\ RepeatsReturnedCall(1, 2)
    /\ Len(llm_log[1].model_calls) = 2
    /\ llm_log[2].model_calls = <<>>
    /\ llm_log[2].returned = llm_log[1].returned

\* the n-th model call of the i-th ended call raised
ModelCallFailed(i, n) == llm_log[i].model_calls[n].outcome.raises # None

\* C26: when a model call failed in a call that returned, every later call
\* with the same input tuple and no cache clear in between returns the same
\* error string for that question and issues no model call.
C26_ErrorStringsMemoized ==
    \A i, j \in 1..Len(llm_log) :
        RepeatsReturnedCall(i, j)
        => \A n \in 1..Len(llm_log[i].model_calls) :
             ModelCallFailed(i, n)
             => LET question == llm_log[i].model_calls[n].question
                IN /\ llm_log[j].model_calls = <<>>
                   /\ llm_log[j].ended = "done"
                   /\ StartsWith(llm_log[j].returned[question], "Error:")
                   /\ llm_log[j].returned[question] =
                          llm_log[i].returned[question]

\* the first call met a failure of the model for its second question only,
\* and the second call repeats it
C26_Witness ==
    /\ Len(llm_log) = 2
    /\ RepeatsReturnedCall(1, 2)
    /\ Len(llm_log[1].model_calls) = 2
    /\ ~ModelCallFailed(1, 1)
    /\ ModelCallFailed(1, 2)
    /\ llm_log[2].returned = llm_log[1].returned

-----------------------------------------------------------------------------
(* Properties of a repeated crawl *)

\* the set of URLs of a list of PageResults
UrlSet(results) == {results[i].url : i \in 1..Len(results)}

\* both crawls have returned
BothCrawlsDone == crawl_round = 2 /\ pc = "done"

\* C25: two crawls with the same seed, fetch outcomes, max_depth and
\* max_pages return PageResults with the same set of URLs, in whatever order
\* each iterates the links of a page.
C25_SameUrlsInAnyLinkOrder ==
    BothCrawlsDone => UrlSet(returned) = UrlSet(first_returned)

\* C25 as amended: the two crawls return the same set of URLs when at most
\* max_pages URLs are within max_depth link hops of the seed, so that the cap
\* refuses no link.
C25_SameUrlsWhenCapNotReached ==
    (/\ BothCrawlsDone
     /\ Cardinality(ReachableWithin(max_depth)) <= max_pages)
    => /\ UrlSet(returned) = UrlSet(first_returned)
       /\ Len(returned) = Len(first_returned)

\* the two crawls enqueued the links of the seed in different orders and
\* returned the same three pages
C25_Witness ==
    /\ BothCrawlsDone
    /\ Cardinality(ReachableWithin(max_depth)) <= max_pages
    /\ Len(first_returned) = 3
    /\ Len(returned) = 3
    /\ returned[2].url # first_returned[2].url
    /\ UrlSet(returned) = UrlSet(first_returned)

-----------------------------------------------------------------------------
(* Properties of the batch analysis *)

\* the table that the finished batch shows and offers for download
ResultTable == results_df(all_results)

\* a row holds a value in every question column
RowComplete(row) ==
    \A q \in QuestionTextSet : q \in DOMAIN row /\ row[q] # NaN

\* C23: batch processing never drops a site or a question.  While the loop
\* runs, the sites finished so far each have their row, in roster order;
\* when it is over the table has exactly one row per roster site, in roster
\* order, and every row has a value for every question text, whether the
\* crawl was empty, had no text, the model failed on a question or an
\* exception was raised while the site was processed.
C23_NoSiteOrQuestionDropped ==
    batch_pc \in {"site", "crawl", "llm", "done"} =>
        /\ Len(all_results) = site_index
        /\ site_index <= Len(websites)
        /\ batch_pc = "done" => Len(ResultTable) = Len(websites)
        /\ \A i \in 1..Len(all_results) :
              /\ ResultTable[i]["Website URL"] = websites[i]
              /\ RowComplete(ResultTable[i])

\* a finished batch of two sites: the first raised an exception and has its
\* error row, the loop went on to the second, where the model answered one
\* question and failed on the other
C23_Witness ==
    /\ batch_pc = "done"
    /\ Len(websites) = MaxSites
    /\ \E e \in BatchExceptionMessages :
          all_results[1] = error_result(websites[1], e)
    /\ all_results[2][QConsultancy.text] = "Yes"
    /\ StartsWith(all_results[2][QProduct.text], "Error: OpenAI API error")

=============================================================================
